---- MODULE Spec2Model ----
(***************************************************************************)
(* element_session/export/nwb.py: session_to_nwb(session_key, subject_id). *)
(* One call of the function is modelled as a sequence of steps, one per    *)
(* statement group of the source, over a relational store (Session,        *)
(* SessionNote, SessionExperimenter, Lab, Subject.Lab), the two optional   *)
(* providers and the module's global namespace.                            *)
(***************************************************************************)
EXTENDS Integers, Sequences, FiniteSets, TLC

VARIABLES
    primary_key,            \* primary key attributes of session.Session, in heading order
    Session,                \* rows of session.Session
    SessionNote,            \* rows of session.SessionNote
    SessionExperimenter,    \* rows of session.SessionExperimenter, in fetch order
    Lab,                    \* rows of lab.Lab
    SubjectLab,             \* rows of subject.Subject.Lab
    HAVE_ELEMENT_ANIMAL,    \* element_animal could be imported
    animal_activated,       \* element_animal.subject.schema.is_activated()
    HAVE_ELEMENT_LAB,       \* element_lab could be imported
    lab_activated,          \* element_lab.lab.schema.is_activated()
    module_globals,         \* which of the names the module never binds are bound at call time
    local_utcoffset,        \* UTC offset (hours) of the system local time zone
    key_arg,                \* argument session_key
    subject_id,             \* argument subject_id
    pc,                     \* position of the call
    session_key,            \* local session_key after line 56
    nwbfile_kwargs,         \* local nwbfile_kwargs
    raised,                 \* the exception the call raised, or NoError
    result                  \* the returned NWBFile, or None

envVars == <<primary_key, Session, SessionNote, SessionExperimenter, Lab, SubjectLab,
             HAVE_ELEMENT_ANIMAL, animal_activated, HAVE_ELEMENT_LAB, lab_activated,
             module_globals, local_utcoffset, key_arg, subject_id>>
vars == <<envVars, pc, session_key, nwbfile_kwargs, raised, result>>

----------------------------------------------------------------------------
(* Bounds of the model *)
MaxExperimenters == 2       \* longest experimenter list fetched
MaxLabs == 2                \* most lab rows affiliated with subjects

----------------------------------------------------------------------------
(* Python values *)
None == [none |-> TRUE]
Str(s) == [str |-> s]
IntV(i) == [int |-> i]
List(s) == [list |-> s]
\* datetime.datetime: wall clock in hours since 2020-05-10T00, tzinfo {} (naive) or {utcoffset}
Naive(w) == [wall |-> w, tzinfo |-> {}]
Aware(w, off) == [wall |-> w, tzinfo |-> {off}]

IsStr(v) == "str" \in DOMAIN v
IsDatetime(v) == "wall" \in DOMAIN v
IsNone(v) == v = None

Range(s) == {s[i] : i \in DOMAIN s}

Digit == [i \in 0..9 |-> CASE i = 0 -> "0" [] i = 1 -> "1" [] i = 2 -> "2" [] i = 3 -> "3"
                           [] i = 4 -> "4" [] i = 5 -> "5" [] i = 6 -> "6" [] i = 7 -> "7"
                           [] i = 8 -> "8" [] i = 9 -> "9"]
TwoDigits(n) == Digit[(n \div 10) % 10] \o Digit[n % 10]

----------------------------------------------------------------------------
(* Exceptions *)
NoError == "NoError"
FetchOneError == "DataJointError: fetch1 should only return one tuple"
JoinTypeError == "TypeError: sequence item: expected str instance"
MissingSubjectError == "ValueError: you musts specify a subject_id"
MultipleLabsError == "DataJointError: Multiple labs associated with this session. Try restricting your session key to specify lab."
NameErrorOf(n) == "NameError: name '" \o n \o "' is not defined"
IntValueError == "ValueError: invalid literal for int()"
TimezoneValueError == "ValueError: offset must be a timedelta strictly between -24h and 24h"
DescriptionTypeError == "TypeError: None is not allowed for 'session_description'"

\* names session_to_nwb reads that neither the module nor the function binds
\* (lines 84, 89, 104, 106, 108); a read of an unbound one raises NameError.
\* module_globals is empty for the module as written and FreeNames when the
\* embedding pipeline has put the collaborators into the module namespace.
FreeNames == {"subject", "lab", "timedelta", "timezone", "DataJointError"}

----------------------------------------------------------------------------
(* datetime *)
\* instant (hours, UTC) a datetime denotes; a naive one is taken as system local time
Instant(d, local) == IF d.tzinfo = {} THEN d.wall - local
                     ELSE d.wall - (CHOOSE o \in d.tzinfo : TRUE)

\* datetime.astimezone(tz), tz a fixed offset in hours
astimezone(d, off, local) == Aware(Instant(d, local) + off, off)

OffsetSuffix(off) == (IF off < 0 THEN "-" ELSE "+")
                     \o TwoDigits(IF off < 0 THEN 0 - off ELSE off) \o ":00"

\* datetime.isoformat()
isoformat(d) == "2020-05-1" \o Digit[(d.wall \div 24) % 10] \o "T"
                \o TwoDigits(d.wall % 24) \o ":00:00"
                \o (IF d.tzinfo = {} THEN "" ELSE OffsetSuffix(CHOOSE o \in d.tzinfo : TRUE))

----------------------------------------------------------------------------
(* The relational store *)
\* restriction of a set of rows by a mapping: attributes the rows do not have are ignored
Restrict(rows, cond) ==
    {r \in rows : \A k \in (DOMAIN cond) \cap (DOMAIN r) : r[k] = cond[k]}

\* restriction of a set of rows by another table: rows with a match on the common attributes
RestrictBy(rows, other) ==
    {r \in rows : \E o \in other : \A k \in (DOMAIN r) \cap (DOMAIN o) : r[k] = o[k]}

\* restriction of an ordered table by a mapping, keeping the order
RestrictSeq(rows, cond) ==
    SelectSeq(rows, LAMBDA r : \A k \in (DOMAIN cond) \cap (DOMAIN r) : r[k] = cond[k])

\* fetch1 succeeds on exactly one row
Fetch1Lenient(rows) == Cardinality(rows) >= 1
Fetch1Ok(rows) == Cardinality(rows) = 1

\* fetch1("KEY"): the primary key of the row
KEY(r) == [k \in Range(primary_key) |-> r[k]]

\* left join with a table whose only secondary attribute is attr: a row without
\* a match keeps the attribute, with the value NULL (None)
JoinLeft(rows, other, attr) ==
    UNION { LET m == Restrict(other, [k \in (DOMAIN r) \ {attr} |-> r[k]])
            IN  IF m = {} THEN {r @@ (attr :> None)}
                ELSE {r @@ (attr :> n[attr]) : n \in m}
          : r \in rows }

\* fetch(attr) of an ordered table
FetchAttr(rows, attr) == [i \in 1..Len(rows) |-> rows[i][attr]]

----------------------------------------------------------------------------
(* Contents the store may have *)
Headings == {<<"subject", "session_datetime">>, <<"subject", "session_id">>}

Row1(pk) == IF pk[2] = "session_id"
            THEN [subject |-> Str("subject5"), session_id |-> IntV(1), session_datetime |-> Naive(52)]
            ELSE [subject |-> Str("subject5"), session_datetime |-> Naive(52)]
Row2(pk) == IF pk[2] = "session_id"
            THEN [subject |-> Str("subject5"), session_id |-> IntV(2), session_datetime |-> Naive(76)]
            ELSE [subject |-> Str("subject5"), session_datetime |-> Naive(76)]

PK(r, pk) == [k \in Range(pk) |-> r[k]]

\* the caller's session_key: a full key, a subject only, a subject with no session
KeyArgs(pk) == {PK(Row1(pk), pk), [subject |-> Str("subject5")], [subject |-> Str("subject9")]}

NoteTables(pk) == {{}, {PK(Row1(pk), pk) @@ [session_note |-> Str("first day")]}}

ExperimenterRow(r, pk, name) == PK(r, pk) @@ [experimenter |-> Str(name)]
ExperimenterNames == {"alice", "bob"}
NoDup(s) == \A i, j \in DOMAIN s : s[i] = s[j] => i = j
ExperimenterTables(pk) ==
    {s \in UNION {[1..n -> {ExperimenterRow(Row1(pk), pk, e) : e \in ExperimenterNames}
                              \cup {ExperimenterRow(Row2(pk), pk, "carol")}]
                  : n \in 0..MaxExperimenters} : NoDup(s)}

UTC == <<"U", "T", "C">>
\* a lab heading without time_zone is {}; otherwise the value every row carries
TimeZones == {<<>>, UTC, UTC \o <<"-", "5">>, UTC \o <<"+", "2", "4">>, <<"E", "S", "T">>}
LabRow(n, tz) ==
    LET base == [lab |-> Str("lab" \o Digit[n]), lab_name |-> Str("Lab " \o Digit[n]),
                 institution |-> Str("Institute " \o Digit[n])]
    IN  IF tz = <<>> THEN base ELSE base @@ [time_zone |-> [str |-> tz]]
LabTables == {{LabRow(n, tz) : n \in 1..MaxLabs} : tz \in TimeZones}
AffiliationRow(s, n) == [subject |-> Str(s), lab |-> Str("lab" \o Digit[n])]
SubjectLabTables == {{}} \cup {{AffiliationRow("subject5", 1)}}
                    \cup {{AffiliationRow("subject5", 1)} \cup {AffiliationRow("subject9", n) : n \in 2..m}
                          : m \in 2..MaxLabs}

----------------------------------------------------------------------------
NoKwargs == [session_id |-> None, identifier |-> None, session_start_time |-> None,
             session_description |-> None, experimenter |-> None, subject |-> None,
             institution |-> None, lab |-> None]

Init ==
    /\ primary_key \in Headings
    /\ Session = {Row1(primary_key), Row2(primary_key)}
    /\ SessionNote \in NoteTables(primary_key)
    /\ SessionExperimenter \in ExperimenterTables(primary_key)
    /\ Lab \in LabTables
    /\ SubjectLab \in SubjectLabTables
    /\ HAVE_ELEMENT_ANIMAL \in BOOLEAN
    /\ animal_activated \in BOOLEAN
    /\ animal_activated => HAVE_ELEMENT_ANIMAL
    /\ HAVE_ELEMENT_LAB \in BOOLEAN
    /\ lab_activated \in BOOLEAN
    /\ lab_activated => HAVE_ELEMENT_LAB
    /\ module_globals \in {{}, FreeNames}
    /\ local_utcoffset \in {0, 0 - 5}
    /\ key_arg \in KeyArgs(primary_key)
    /\ subject_id \in {None, Str("mouse1")}
    /\ pc = "resolve"
    /\ session_key = None
    /\ nwbfile_kwargs = NoKwargs
    /\ raised = NoError
    /\ result = None

Raise(e) ==
    /\ pc' = "raised"
    /\ raised' = e
    /\ UNCHANGED result

\* line 56: session_key = (session.Session & session_key).fetch1("KEY")
ResolveKey ==
    /\ pc = "resolve"
    /\ LET rows == Restrict(Session, key_arg)
       IN  IF Fetch1Ok(rows)
           THEN /\ session_key' = KEY(CHOOSE r \in rows : TRUE)
                /\ pc' = "identifier"
                /\ UNCHANGED <<raised, result>>
           ELSE /\ Raise(FetchOneError)
                /\ UNCHANGED session_key
    /\ UNCHANGED <<envVars, nwbfile_kwargs>>

\* "_".join(values): a TypeError unless every value is a str
JoinOk(values) == \A i \in DOMAIN values : IsStr(values[i])
RECURSIVE JoinStr(_, _)
JoinStr(values, sep) ==
    IF Len(values) = 0 THEN ""
    ELSE IF Len(values) = 1 THEN values[1].str
    ELSE values[1].str \o sep \o JoinStr(Tail(values), sep)

\* lines 58-61: the key's values in key order, datetimes in ISO-8601, the others as they are
session_identifier(key) ==
    [i \in 1..Len(primary_key) |->
        LET v == key[primary_key[i]]
        IN  IF IsDatetime(v) THEN Str(isoformat(v)) ELSE v]

UUIDs == {"uuid-a", "uuid-b"}

\* lines 58-65
BuildIdentifier ==
    /\ pc = "identifier"
    /\ LET values == session_identifier(session_key)
       IN  IF JoinOk(values)
           THEN /\ \E u \in UUIDs :
                     nwbfile_kwargs' = [nwbfile_kwargs EXCEPT
                                           !.session_id = Str(JoinStr(values, "_")),
                                           !.identifier = Str(u)]
                /\ pc' = "info"
                /\ UNCHANGED <<raised, result>>
           ELSE /\ Raise(JoinTypeError)
                /\ UNCHANGED nwbfile_kwargs
    /\ UNCHANGED <<envVars, session_key>>

\* dict.get(k, default): the default only when the key is missing
DictGet(d, k, default) == IF k \in DOMAIN d THEN d[k] ELSE default

\* line 67: (session.Session & session_key).join(session.SessionNote, left=True)
session_info_query(key) == JoinLeft(Restrict(Session, key), SessionNote, "session_note")

\* lines 67-75
FetchSessionInfo ==
    /\ pc = "info"
    /\ LET rows == session_info_query(session_key)
       IN  IF Fetch1Ok(rows)
           THEN LET session_info == CHOOSE r \in rows : TRUE
                IN  /\ nwbfile_kwargs' = [nwbfile_kwargs EXCEPT
                          !.session_start_time =
                              astimezone(session_info["session_datetime"], 0, local_utcoffset),
                          !.session_description = DictGet(session_info, "session_note", Str(""))]
                    /\ pc' = "experimenters"
                    /\ UNCHANGED <<raised, result>>
           ELSE /\ Raise(FetchOneError)
                /\ UNCHANGED nwbfile_kwargs
    /\ UNCHANGED <<envVars, session_key>>

\* line 77: (session.SessionExperimenter & session_key).fetch("experimenter")
experimenters(key) == FetchAttr(RestrictSeq(SessionExperimenter, key), "experimenter")

\* line 79: list(experimenters) or None
ListOrEmpty(l) == List(l)
ListOrNone(l) == IF Len(l) > 0 THEN List(l) ELSE None

\* lines 77-79
FetchExperimenters ==
    /\ pc = "experimenters"
    /\ nwbfile_kwargs' = [nwbfile_kwargs EXCEPT
                             !.experimenter = ListOrNone(experimenters(session_key))]
    /\ pc' = "subject"
    /\ UNCHANGED <<envVars, session_key, raised, result>>

\* line 81
AnimalActive == HAVE_ELEMENT_ANIMAL /\ animal_activated
\* line 88
LabActive == HAVE_ELEMENT_LAB /\ lab_activated

\* element_animal.export.nwb.subject_to_nwb: subject.Subject::subject -> subject.subject_id
subject_to_nwb(key) == [subject_id |-> key["subject"]]
\* pynwb.file.Subject(subject_id=subject_id)
Subject(id) == [subject_id |-> id]

\* lines 81-86 and 113-118
SubjectBranch ==
    /\ pc = "subject"
    /\ IF AnimalActive
       THEN IF "subject" \in module_globals
            THEN /\ nwbfile_kwargs' = [nwbfile_kwargs EXCEPT !.subject = subject_to_nwb(session_key)]
                 /\ pc' = "lab"
                 /\ UNCHANGED <<raised, result>>
            ELSE /\ Raise(NameErrorOf("subject"))
                 /\ UNCHANGED nwbfile_kwargs
       ELSE IF subject_id = None
            THEN /\ Raise(MissingSubjectError)
                 /\ UNCHANGED nwbfile_kwargs
            ELSE /\ nwbfile_kwargs' = [nwbfile_kwargs EXCEPT !.subject = Subject(subject_id)]
                 /\ pc' = "construct"
                 /\ UNCHANGED <<raised, result>>
    /\ UNCHANGED <<envVars, session_key>>

\* s[:n] and s[n:] of a str
Prefix(s, n) == SubSeq(s, 1, IF Len(s) < n THEN Len(s) ELSE n)
Suffix(s, n) == SubSeq(s, n + 1, Len(s))

\* int(s): an optional sign and at least one decimal digit
IsDigit(c) == \E i \in 0..9 : Digit[i] = c
DigitValue(c) == CHOOSE i \in 0..9 : Digit[i] = c
Unsigned(s) == IF Len(s) > 0 /\ s[1] \in {"+", "-"} THEN Tail(s) ELSE s
IsIntLiteral(s) == Len(Unsigned(s)) > 0 /\ \A i \in DOMAIN Unsigned(s) : IsDigit(Unsigned(s)[i])
RECURSIVE Magnitude(_)
Magnitude(s) == IF Len(s) = 0 THEN 0
                ELSE 10 * Magnitude(SubSeq(s, 1, Len(s) - 1)) + DigitValue(s[Len(s)])
int(s) == IF s[1] = "-" THEN 0 - Magnitude(Unsigned(s)) ELSE Magnitude(Unsigned(s))

\* datetime.timezone(timedelta(hours=h)) accepts offsets strictly between -24h and 24h
TimezoneOk(h) == 0 - 24 < h /\ h < 24

\* line 89: lab.Lab & subject.Subject.Lab() & session_key
lab_query(key) == Restrict(RestrictBy(Lab, SubjectLab), key)

\* lines 94-95
InstitutionSwapped(lab_record) == DictGet(lab_record, "lab_name", None)
Institution(lab_record) == DictGet(lab_record, "institution", None)
LabName(lab_record) == DictGet(lab_record, "lab_name", None)

\* lines 99-107: the converted datetime is computed and dropped; nwbfile_kwargs is untouched
Localize(kwargs, hours) == kwargs

\* lines 92-107, the body of the try: the exception it ends with and nwbfile_kwargs after it
TryBody(query, kwargs) ==
    IF ~Fetch1Ok(query) THEN [exc |-> FetchOneError, kwargs |-> kwargs]
    ELSE
      LET lab_record == CHOOSE r \in query : TRUE
          updated == [kwargs EXCEPT !.institution = Institution(lab_record),
                                    !.lab = LabName(lab_record)]
      IN  IF "time_zone" \in DOMAIN lab_record /\ Prefix(lab_record["time_zone"].str, 3) = UTC
          THEN LET text == Suffix(lab_record["time_zone"].str, 3)
               IN  IF ~IsIntLiteral(text) THEN [exc |-> IntValueError, kwargs |-> updated]
                   ELSE IF "timedelta" \notin module_globals
                        THEN [exc |-> NameErrorOf("timedelta"), kwargs |-> updated]
                   ELSE IF "timezone" \notin module_globals
                        THEN [exc |-> NameErrorOf("timezone"), kwargs |-> updated]
                   ELSE IF ~TimezoneOk(int(text))
                        THEN [exc |-> TimezoneValueError, kwargs |-> updated]
                   ELSE [exc |-> NoError, kwargs |-> Localize(updated, int(text))]
          ELSE [exc |-> NoError, kwargs |-> updated]

\* lines 108-111: except DataJointError
Handler(exc) ==
    IF "DataJointError" \notin module_globals THEN NameErrorOf("DataJointError")
    ELSE IF exc = FetchOneError THEN MultipleLabsError
    ELSE exc

\* lines 88-111
LabBranch ==
    /\ pc = "lab"
    /\ IF ~LabActive
       THEN /\ pc' = "construct"
            /\ UNCHANGED <<nwbfile_kwargs, raised, result>>
       ELSE IF "lab" \notin module_globals
       THEN /\ Raise(NameErrorOf("lab"))
            /\ UNCHANGED nwbfile_kwargs
       ELSE IF "subject" \notin module_globals
       THEN /\ Raise(NameErrorOf("subject"))
            /\ UNCHANGED nwbfile_kwargs
       ELSE IF lab_query(session_key) = {}
       THEN /\ pc' = "construct"
            /\ UNCHANGED <<nwbfile_kwargs, raised, result>>
       ELSE LET out == TryBody(lab_query(session_key), nwbfile_kwargs)
            IN  /\ nwbfile_kwargs' = out.kwargs
                /\ IF out.exc = NoError
                   THEN /\ pc' = "construct"
                        /\ UNCHANGED <<raised, result>>
                   ELSE Raise(Handler(out.exc))
    /\ UNCHANGED <<envVars, session_key>>

\* pynwb.NWBFile(**kwargs): session_description is a required str, None is refused
NWBFileOk(kwargs) == IsStr(kwargs.session_description)

\* line 120
Construct ==
    /\ pc = "construct"
    /\ IF NWBFileOk(nwbfile_kwargs)
       THEN /\ result' = nwbfile_kwargs
            /\ pc' = "done"
            /\ UNCHANGED raised
       ELSE Raise(DescriptionTypeError)
    /\ UNCHANGED <<envVars, session_key, nwbfile_kwargs>>

Next ==
    \/ ResolveKey
    \/ BuildIdentifier
    \/ FetchSessionInfo
    \/ FetchExperimenters
    \/ SubjectBranch
    \/ LabBranch
    \/ Construct

Spec == Init /\ [][Next]_vars

----------------------------------------------------------------------------
(* What the properties speak about *)
Finished == pc \in {"done", "raised"}
\* the stored session records the caller's key selects
Matches == Restrict(Session, key_arg)
KeyResolves == Cardinality(Matches) = 1
TheSession == CHOOSE r \in Matches : TRUE
StoredInstant == Instant(TheSession["session_datetime"], local_utcoffset)
SubjectRequirementMet == AnimalActive \/ subject_id # None
LabConsulted == AnimalActive /\ LabActive
LabRecords == lab_query(PK(TheSession, primary_key))
LabAmbiguous == LabConsulted /\ Cardinality(LabRecords) > 1
TheLab == CHOOSE r \in LabRecords : TRUE
\* time_zone is "UTC" followed by a signed hour offset
SignedOffset(r) ==
    /\ "time_zone" \in DOMAIN r
    /\ Prefix(r["time_zone"].str, 3) = UTC
    /\ Len(r["time_zone"].str) > 4
    /\ r["time_zone"].str[4] \in {"+", "-"}
    /\ IsIntLiteral(Suffix(r["time_zone"].str, 3))
    /\ TimezoneOk(int(Suffix(r["time_zone"].str, 3)))
OffsetOf(r) == int(Suffix(r["time_zone"].str, 3))
NotesOfSession == Restrict(SessionNote, PK(TheSession, primary_key))
\* the text of a key value: ISO-8601 for a timestamp, the value itself otherwise
TextOf(v) == IF IsDatetime(v) THEN isoformat(v)
             ELSE IF IsStr(v) THEN v.str
             ELSE Digit[v.int]
RECURSIVE Underscored(_)
Underscored(texts) == IF Len(texts) = 0 THEN ""
                      ELSE IF Len(texts) = 1 THEN texts[1]
                      ELSE texts[1] \o "_" \o Underscored(Tail(texts))
\* every value of the resolved key is a string or a timestamp
TextKey == \A k \in Range(primary_key) : IsStr(TheSession[k]) \/ IsDatetime(TheSession[k])
\* the names of FreeNames are all bound when the call is made
NamesBound == module_globals = FreeNames
ExpectedSessionId ==
    Str(Underscored([i \in 1..Len(primary_key) |-> TextOf(TheSession[primary_key[i]])]))

----------------------------------------------------------------------------
(* C1: for a key (of string and timestamp values) resolving to exactly     *)
(* one session, with the subject requirement met and no ambiguous lab      *)
(* query, the call returns an artifact whose session_start_time is         *)
(* time-zone aware and denotes the instant of the stored session_datetime, *)
(* whatever the lab record and its time_zone are.                          *)
C1_StartTimeIsStoredInstant ==
    (Finished /\ KeyResolves /\ TextKey /\ NamesBound /\ NotesOfSession # {}
              /\ SubjectRequirementMet /\ ~LabAmbiguous)
        => /\ pc = "done"
           /\ result.session_start_time.tzinfo # {}
           /\ Instant(result.session_start_time, local_utcoffset) = StoredInstant

(* C2: a key matching zero or several sessions makes the call fail with    *)
(* the fetch1 error before anything else, and nothing is returned,         *)
(* whatever subject_id and the providers are.                              *)
C2_KeyErrorFirst ==
    (pc # "resolve" /\ ~KeyResolves)
        => pc = "raised" /\ raised = FetchOneError /\ result = None
C2_Witness ==
    /\ pc = "raised" /\ raised = FetchOneError
    /\ Cardinality(Matches) = 2
    /\ subject_id = None /\ ~AnimalActive

(* C3: with the subject provider inactive and the key resolving, the call  *)
(* fails with the missing-subject_id error exactly when subject_id is not  *)
(* supplied, and otherwise returns an artifact whose subject has the       *)
(* supplied subject_id.                                                    *)
C3_SubjectIdRequired ==
    (Finished /\ KeyResolves /\ ~AnimalActive)
        => /\ (raised = MissingSubjectError) <=> (subject_id = None)
           /\ subject_id # None => (pc = "done" /\ result.subject.subject_id = subject_id)

(* C4: a returned artifact's experimenter is the list of the session's     *)
(* experimenter names in fetch order when there is one, and None -- never  *)
(* an empty list -- when there is none.                                    *)
C4_Experimenter ==
    pc = "done"
        => LET names == FetchAttr(RestrictSeq(SessionExperimenter, PK(TheSession, primary_key)),
                                  "experimenter")
           IN  /\ Len(names) > 0 => result.experimenter = List(names)
               /\ Len(names) = 0 => result.experimenter = None
C4_Witness ==
    /\ pc = "done"
    /\ Len(RestrictSeq(SessionExperimenter, PK(TheSession, primary_key))) = 2
    /\ Len(SessionExperimenter) = 2

(* C5: with both providers active and one lab record whose time_zone is    *)
(* "UTC" and a signed hour offset H, the returned session_start_time has   *)
(* UTC offset H and shows the UTC wall clock shifted by H hours.           *)
C5_Localized ==
    (pc = "done" /\ LabConsulted /\ Cardinality(LabRecords) = 1 /\ SignedOffset(TheLab))
        => /\ result.session_start_time.tzinfo = {OffsetOf(TheLab)}
           /\ result.session_start_time.wall = StoredInstant + OffsetOf(TheLab)

(* C6: with both providers active and more than one lab record for a       *)
(* resolved key (of string and timestamp values), the call fails with the  *)
(* multiple-labs error and returns nothing.                                *)
C6_AmbiguousLab ==
    (Finished /\ KeyResolves /\ TextKey /\ LabConsulted /\ Cardinality(LabRecords) > 1)
        => pc = "raised" /\ raised = MultipleLabsError /\ result = None

(* C7: optional data never makes the call fail: with the key (of string    *)
(* and timestamp values) resolving, the subject requirement met and at     *)
(* most one lab record, an artifact is returned whatever the stored note,  *)
(* the experimenters, the lab record and its time_zone are; without a      *)
(* time_zone of the signed-offset form the start time stays in UTC.        *)
C7_OptionalNeverFails ==
    (Finished /\ KeyResolves /\ TextKey /\ NamesBound /\ NotesOfSession # {}
              /\ SubjectRequirementMet /\ ~LabAmbiguous)
        => /\ pc = "done"
           /\ ~(LabConsulted /\ LabRecords # {} /\ SignedOffset(TheLab))
                 => result.session_start_time.tzinfo = {0}

(* C8: the session_description handed to the artifact is the stored note   *)
(* when the session has a note row and the empty string, not None, when    *)
(* it has none.                                                            *)
C8_Description ==
    (pc = "done" \/ (pc = "raised" /\ raised = DescriptionTypeError))
        => nwbfile_kwargs.session_description =
              (IF NotesOfSession = {} THEN Str("")
               ELSE (CHOOSE n \in NotesOfSession : TRUE)["session_note"])

(* C9: a returned artifact carries the lab record's institution and        *)
(* lab_name exactly when both providers are active and the lab query has   *)
(* one record; otherwise institution and lab are both absent.              *)
C9_LabFields ==
    pc = "done"
        => IF LabConsulted /\ Cardinality(LabRecords) = 1
           THEN /\ result.institution = TheLab["institution"]
                /\ result.lab = TheLab["lab_name"]
           ELSE /\ result.institution = None
                /\ result.lab = None
C9_Witness ==
    /\ pc = "done"
    /\ LabConsulted /\ Cardinality(LabRecords) = 1
    /\ result.institution = TheLab["institution"]

(* C10: for every resolved key, of string values or not, the call does     *)
(* not fail on building session_id, and a returned artifact's session_id   *)
(* is the key's values in key order joined by "_", timestamps in ISO-8601. *)
C10_SessionId ==
    (Finished /\ KeyResolves)
        => /\ raised # JoinTypeError
           /\ pc = "done" => result.session_id = ExpectedSessionId
====
